---- MODULE Spec2Model ----
(***************************************************************************)
(* Request/response orchestration of the Floradex mobile client: the       *)
(* session store (AsyncStorage), the root navigator, and the async         *)
(* handlers of AuthScreen, ProfileScreen, CollectionScreen and             *)
(* IdentifyScreen.                                                         *)
(*                                                                         *)
(* Every handler is an async function.  One action of the model is one     *)
(* run-to-completion segment of a handler: from its call, or from the      *)
(* resumption of an await, up to the next await that touches the store or  *)
(* the network.  A store operation takes effect when it is issued (the     *)
(* store serves operations in the order they were issued); the handler     *)
(* learns its outcome when the await resumes.  Store reads always          *)
(* succeed; store writes and removals may reject (the handlers' catch      *)
(* blocks are there for that); a fetch may throw or return any status.     *)
(***************************************************************************)
EXTENDS Integers, Sequences, FiniteSets, TLC

VARIABLES
    store,          \* AsyncStorage: key -> stored string, or None
    screen,         \* the root stack's current route: "Auth" or "Main"
    net,            \* the HTTP requests in flight
    \* AuthScreen
    isLogin, username, password, authLoading,
    authPc,         \* where handleAuth is suspended
    authResp,       \* handleAuth's response / parsed data
    authSet,        \* outcome of the setItem handleAuth awaits
    authAlert,      \* the last Alert handleAuth showed
    authRun,        \* the last handleAuth run: how it ended, the keys it stored
    lastFail,       \* the last failed authenticate: mode, cause, message shown
    prevFail,       \* the failed authenticate before that one
    \* ProfileScreen
    profileLoading,
    logoutPc,       \* where handleLogout is suspended
    logoutRm,       \* outcome of the removeItem handleLogout awaits
    logoutGone,     \* the keys the last handleLogout run removed
    logoutAlert,    \* the Alert handleLogout showed
    da,             \* handleDeleteAccount: its locals and what its run observed
    \* CollectionScreen
    plants, collLoading, refreshing, error,
    fp,             \* fetchPlants, per call in flight: locals and observations
    dp,             \* handleDeletePlant / deletePlant: locals and observations
    \* IdentifyScreen
    image, identLoading, identificationResult, showResultCard,
    ip,             \* identifyPlant: locals and observations
    ac,             \* addToCollection: locals and observations
    workOn,         \* the screen of Main the user works on (SpecSession)
    pd              \* PlantDetailScreen: whether it is shown, its handleDelete

None == "none"
Undefined == "undefined"
\* identificationResult when it is null.
NoResult == [plant_type |-> None, confidence |-> 0, all_predictions |-> <<>>,
             image_url |-> None]

Keys == {"userToken", "userId", "username"}

\* The session a login/register response describes.
Sessions == {"s1", "s2"}

NoSession == [k \in Keys |-> None]
FullSession(s) == [k \in Keys |-> s]

(***************************************************************************)
(* Session store (AsyncStorage)                                            *)
(***************************************************************************)

\* Either outcome of a store write or removal.
StoreResults == {"done", "throws"}

\* setItem(key, value): a rejected write stores nothing.  A value of
\* undefined is stored as the string "undefined" by a store that accepts
\* it (web localStorage) and rejected by one that does not (native).
setItem(st, k, v, res) == IF res = "done" THEN [st EXCEPT ![k] = v] ELSE st

removeItemKeeps(st, k, res) == st
removeItem(st, k, res) == IF res = "done" THEN [st EXCEPT ![k] = None] ELSE st

\* multiRemove(keys): on success every key is gone; a rejected multiRemove
\* may have removed any proper subset of them.
multiRemove(st, ks, res, gone) ==
    IF res = "done" THEN [k \in Keys |-> IF k \in ks THEN None ELSE st[k]]
    ELSE [k \in Keys |-> IF k \in gone THEN None ELSE st[k]]

\* JavaScript truthiness of a stored value (getItem gives null when absent).
Truthy(v) == v # None

(***************************************************************************)
(* AuthScreen.handleAuth                                                   *)
(***************************************************************************)

Usernames == {"", "u"}
Passwords == {"", "p"}

AuthEndpoint(login) == IF login THEN "/api/auth/login" ELSE "/api/auth/register"

\* The user-facing message of the catch block.
AuthFailedMessageLeaky(login, cause) ==
    IF cause = "status" THEN "detail"
    ELSE IF login THEN "Invalid username or password" ELSE "Failed to create account"
AuthFailedMessage(login, cause) ==
    IF login THEN "Invalid username or password" ELSE "Failed to create account"

\* Response bodies of the auth endpoints: text that is not JSON, the JSON
\* value null, or a JSON object holding some of access_token, _id, username
\* (stored under userToken, userId, username) of session sid.
FieldSets == {Keys, {"userToken"}, {}}
AuthBodies ==
    {[kind |-> "text", fields |-> {}, sid |-> None],
     [kind |-> "null", fields |-> {}, sid |-> None]}
    \cup [kind : {"object"}, fields : FieldSets, sid : Sessions]
AuthResponses == [ok : BOOLEAN, body : AuthBodies]
NoResp == [ok |-> FALSE, body |-> [kind |-> None, fields |-> {}, sid |-> None]]

\* data = JSON.parse(responseText), or { detail: responseText } when the
\* text does not parse: the field of data stored under key k.
DataField(resp, k) ==
    IF resp.body.kind = "object" /\ k \in resp.body.fields THEN resp.body.sid
    ELSE Undefined

NoAuthRun == [outcome |-> None, cause |-> None, written |-> {}, sid |-> None]
NoFail == [login |-> TRUE, cause |-> None, msg |-> None]

authVars == <<isLogin, username, password, authLoading, authPc, authResp,
              authSet, authAlert, authRun, lastFail, prevFail>>
sessVars == <<store, screen, net>>
profVars == <<profileLoading, logoutPc, logoutRm, logoutGone, logoutAlert, da>>
collVars == <<plants, collLoading, refreshing, error, fp, dp>>
identVars == <<image, identLoading, identificationResult, showResultCard, ip, ac,
               workOn, pd>>
identButAc == <<image, identLoading, identificationResult, showResultCard, ip>>
mainVars == <<profVars, collVars, identVars>>
vars == <<sessVars, authVars, mainVars>>

\* The confirmation dialogs (Alert.alert, window.confirm) are modal: while
\* one is open the user can only answer it.
NoDialog == da.pc # "confirm" /\ \A d \in DOMAIN dp : dp[d].pc # "confirm"

\* A screen's component state when it is mounted (its useState defaults).
MountAuth ==
    /\ isLogin' = TRUE /\ username' = "" /\ password' = ""
    /\ authLoading' = FALSE /\ authAlert' = None

MountMain ==
    /\ profileLoading' = FALSE
    /\ plants' = <<>> /\ collLoading' = TRUE /\ refreshing' = FALSE /\ error' = None
    /\ image' = None /\ identLoading' = FALSE
    /\ identificationResult' = NoResult /\ showResultCard' = FALSE
    /\ UNCHANGED <<logoutPc, logoutRm, logoutGone, logoutAlert, da, fp, dp, ip, ac,
                   workOn, pd>>

\* onChangeText of the two inputs, editable while not loading.
setUsername(u) ==
    /\ screen = "Auth" /\ ~authLoading
    /\ username' = u
    /\ UNCHANGED <<store, screen, net, isLogin, password, authLoading, authPc,
                   authResp, authSet, authAlert, authRun, lastFail, prevFail, mainVars>>

setPassword(p) ==
    /\ screen = "Auth" /\ ~authLoading
    /\ password' = p
    /\ UNCHANGED <<store, screen, net, isLogin, username, authLoading, authPc,
                   authResp, authSet, authAlert, authRun, lastFail, prevFail, mainVars>>

\* The mode switch, disabled while loading.
setIsLogin ==
    /\ screen = "Auth" /\ ~authLoading
    /\ isLogin' = ~isLogin
    /\ UNCHANGED <<store, screen, net, username, password, authLoading, authPc,
                   authResp, authSet, authAlert, authRun, lastFail, prevFail, mainVars>>

\* catch + finally of handleAuth: the alert, then setLoading(false).
handleAuth_catch(cause) ==
    /\ authAlert' = AuthFailedMessage(isLogin, cause)
    /\ lastFail' = [login |-> isLogin, cause |-> cause,
                     msg |-> AuthFailedMessage(isLogin, cause)]
    /\ prevFail' = lastFail
    /\ authRun' = [authRun EXCEPT !.outcome = "failed", !.cause = cause]
    /\ authLoading' = FALSE
    /\ authPc' = "idle"
    /\ authResp' = NoResp
    /\ authSet' = None

\* The guard of handleAuth: both inputs non-empty.
CredentialsGivenLax(u, p) == u # "" \/ p # ""
CredentialsGiven(u, p) == ~(u = "" \/ p = "")

\* The button press, up to the await of fetch.
handleAuth_call ==
    /\ screen = "Auth" /\ ~authLoading /\ authPc = "idle"
    /\ IF ~CredentialsGiven(username, password)
       THEN /\ authAlert' = "Please enter both username and password"
            /\ authRun' = [NoAuthRun EXCEPT !.outcome = "validation"]
            /\ UNCHANGED <<net, authLoading, authPc>>
       ELSE /\ authLoading' = TRUE
            /\ authAlert' = None
            /\ authRun' = NoAuthRun
            /\ net' = net \cup {[op |-> "handleAuth", path |-> AuthEndpoint(isLogin),
                                 token |-> None]}
            /\ authPc' = "fetch"
    /\ UNCHANGED <<store, screen, isLogin, username, password, authResp, authSet,
                   lastFail, prevFail, mainVars>>

\* await AsyncStorage.setItem(k, data[k]) is issued: the store takes the
\* value, or rejects it.
handleAuth_setItem(k, resp) ==
    \E res \in StoreResults :
      /\ store' = setItem(store, k, DataField(resp, k), res)
      /\ authSet' = res
      /\ authRun' = IF res = "done"
                    THEN [authRun EXCEPT !.written = authRun.written \cup {k}]
                    ELSE authRun

\* fetch rejects: a network error.
handleAuth_fetchThrows ==
    /\ authPc = "fetch"
    /\ \E r \in net : r.op = "handleAuth" /\ net' = net \ {r}
    /\ handleAuth_catch("thrown")
    /\ UNCHANGED <<store, screen, isLogin, username, password, mainVars>>

\* Whether handleAuth goes on to store a session after parsing a response.
AcceptsLax(resp) == resp.body.kind # "null"
Accepts(resp) == resp.ok /\ resp.body.kind # "null"

\* fetch resolves; response.text(), JSON.parse, the status check, and the
\* first setItem.  JSON null makes data.detail / data.access_token throw.
handleAuth_response ==
    /\ authPc = "fetch"
    /\ \E r \in net : r.op = "handleAuth" /\ net' = net \ {r}
    /\ \E resp \in AuthResponses :
         IF ~Accepts(resp)
         THEN /\ handleAuth_catch(IF resp.ok THEN "body" ELSE "status")
              /\ UNCHANGED store
         ELSE /\ authResp' = resp
              /\ handleAuth_setItem("userToken", resp)
              /\ authPc' = "setToken"
              /\ UNCHANGED <<authAlert, lastFail, prevFail, authLoading>>
    /\ UNCHANGED <<screen, isLogin, username, password, mainVars>>

\* After await setItem('userToken'): setItem('userId', data._id).
handleAuth_afterSetToken ==
    /\ authPc = "setToken"
    /\ IF authSet = "throws"
       THEN /\ handleAuth_catch("store")
            /\ UNCHANGED store
       ELSE /\ handleAuth_setItem("userId", authResp)
            /\ authPc' = "setUserId"
            /\ UNCHANGED <<authAlert, lastFail, prevFail, authLoading, authResp>>
    /\ UNCHANGED <<screen, net, isLogin, username, password, mainVars>>

\* After await setItem('userId'): setItem('username', data.username).
handleAuth_afterSetUserId ==
    /\ authPc = "setUserId"
    /\ IF authSet = "throws"
       THEN /\ handleAuth_catch("store")
            /\ UNCHANGED store
       ELSE /\ handleAuth_setItem("username", authResp)
            /\ authPc' = "setUsername"
            /\ UNCHANGED <<authAlert, lastFail, prevFail, authLoading, authResp>>
    /\ UNCHANGED <<screen, net, isLogin, username, password, mainVars>>

\* After await setItem('username'): navigation.replace('Main'), finally.
handleAuth_afterSetUsername ==
    /\ authPc = "setUsername"
    /\ IF authSet = "throws"
       THEN /\ handleAuth_catch("store")
            /\ UNCHANGED <<screen, mainVars>>
       ELSE /\ screen' = "Main"
            /\ MountMain
            /\ authRun' = [authRun EXCEPT !.outcome = "success",
                                           !.sid = authResp.body.sid]
            /\ authLoading' = FALSE
            /\ authPc' = "idle"
            /\ authResp' = NoResp
            /\ authSet' = None
            /\ UNCHANGED <<authAlert, lastFail, prevFail>>
    /\ UNCHANGED <<store, net, isLogin, username, password>>

(***************************************************************************)
(* ProfileScreen.handleLogout                                              *)
(***************************************************************************)

\* catch of handleLogout.
handleLogout_catch ==
    /\ logoutAlert' = "Failed to log out"
    /\ logoutPc' = "idle"
    /\ UNCHANGED <<store, screen, logoutRm, logoutGone, authVars>>

\* The removal handleLogout issues when it resumes in state pc, and the
\* state it then waits in; "navigate" once the three are done.
LogoutNextSkipsUserId(pc) ==
    CASE pc = "call" -> [key |-> "userToken", pc |-> "rmToken"]
      [] pc = "rmToken" -> [key |-> "username", pc |-> "rmUsername"]
      [] pc = "rmUserId" -> [key |-> "username", pc |-> "rmUsername"]
      [] OTHER -> [key |-> None, pc |-> "navigate"]
LogoutNext(pc) ==
    CASE pc = "call" -> [key |-> "userToken", pc |-> "rmToken"]
      [] pc = "rmToken" -> [key |-> "userId", pc |-> "rmUserId"]
      [] pc = "rmUserId" -> [key |-> "username", pc |-> "rmUsername"]
      [] OTHER -> [key |-> None, pc |-> "navigate"]

\* The Log Out press (disabled while loading; one run of handleLogout at a
\* time is modelled): removeItem('userToken').
handleLogout_call ==
    /\ screen = "Main" /\ NoDialog /\ ~profileLoading /\ logoutPc = "idle"
    /\ \E res \in StoreResults :
         /\ store' = removeItem(store, LogoutNext("call").key, res)
         /\ logoutRm' = res
         /\ logoutGone' = IF res = "done" THEN {LogoutNext("call").key} ELSE {}
    /\ logoutPc' = LogoutNext("call").pc
    /\ logoutAlert' = None
    /\ UNCHANGED <<screen, net, authVars, profileLoading, da, collVars, identVars>>

\* An awaited removeItem resumes: the catch block if it rejected, else the
\* next removeItem, and after the third navigation.replace('Auth').
handleLogout_resume ==
    /\ logoutPc \in {"rmToken", "rmUserId", "rmUsername"}
    /\ IF logoutRm = "throws"
       THEN handleLogout_catch
       ELSE IF LogoutNext(logoutPc).pc = "navigate"
       THEN /\ screen' = "Auth"
            /\ MountAuth
            /\ logoutPc' = "idle"
            /\ UNCHANGED <<store, logoutRm, logoutGone, logoutAlert, authPc, authResp,
                           authSet, authRun, lastFail, prevFail>>
       ELSE /\ \E res \in StoreResults :
                 /\ store' = removeItem(store, LogoutNext(logoutPc).key, res)
                 /\ logoutRm' = res
                 /\ logoutGone' = IF res = "done" THEN logoutGone \cup {LogoutNext(logoutPc).key}
                                  ELSE logoutGone
            /\ logoutPc' = LogoutNext(logoutPc).pc
            /\ UNCHANGED <<screen, logoutAlert, authVars>>
    /\ UNCHANGED <<net, profileLoading, da, collVars, identVars>>

(***************************************************************************)
(* ProfileScreen.handleDeleteAccount                                       *)
(***************************************************************************)

\* handleDeleteAccount's locals, and what its run observed: whether it
\* found no token, the requests it issued, how its request ended (status)
\* and how the run ended (outcome).
IdleRun == [pc |-> "idle", token |-> None, rm |-> None, alert |-> None,
            noToken |-> FALSE, requests |-> 0, status |-> None, outcome |-> None]

\* catch + finally of handleDeleteAccount: the error's message is shown.
handleDeleteAccount_catch(message, status, outcome) ==
    /\ da' = [da EXCEPT !.pc = "idle", !.alert = message, !.status = status,
                        !.outcome = outcome]
    /\ profileLoading' = FALSE

\* The Delete Account press (disabled while loading): the confirmation
\* dialog is shown and awaited.
handleDeleteAccount_call ==
    /\ screen = "Main" /\ NoDialog /\ ~profileLoading /\ da.pc = "idle"
    /\ da' = [IdleRun EXCEPT !.pc = "confirm"]
    /\ UNCHANGED <<sessVars, authVars, profileLoading, logoutPc, logoutRm, logoutGone,
                   logoutAlert, collVars, identVars>>

\* The dialog is answered.  Cancel: return (finally still runs).  Delete:
\* setLoading(true) and getItem('userToken').
handleDeleteAccount_confirm(isConfirmed) ==
    /\ da.pc = "confirm"
    /\ IF ~isConfirmed
       THEN /\ da' = [da EXCEPT !.pc = "idle", !.outcome = "cancelled"]
            /\ profileLoading' = FALSE
       ELSE /\ da' = [da EXCEPT !.pc = "getToken", !.token = store["userToken"],
                                !.noToken = ~Truthy(store["userToken"])]
            /\ profileLoading' = TRUE
    /\ UNCHANGED <<sessVars, authVars, logoutPc, logoutRm, logoutGone, logoutAlert,
                   collVars, identVars>>

\* The token check of handleDeleteAccount.
HasTokenAlways(token) == TRUE
HasToken(token) == Truthy(token)

\* After await getItem: the token check, then the DELETE to /api/users/me.
handleDeleteAccount_afterGetToken ==
    /\ da.pc = "getToken"
    /\ IF ~HasToken(da.token)
       THEN /\ handleDeleteAccount_catch("No authentication token found", da.status, "noauth")
            /\ UNCHANGED net
       ELSE /\ net' = net \cup {[op |-> "handleDeleteAccount", path |-> "/api/users/me",
                                 token |-> da.token]}
            /\ da' = [da EXCEPT !.pc = "fetch", !.requests = 1]
            /\ UNCHANGED profileLoading
    /\ UNCHANGED <<store, screen, authVars, logoutPc, logoutRm, logoutGone, logoutAlert,
                   collVars, identVars>>

\* fetch rejects.
handleDeleteAccount_fetchThrows ==
    /\ da.pc = "fetch"
    /\ \E r \in net : r.op = "handleDeleteAccount" /\ net' = net \ {r}
    /\ handleDeleteAccount_catch("Network request failed", "throws", "failed")
    /\ UNCHANGED <<store, screen, authVars, logoutPc, logoutRm, logoutGone, logoutAlert,
                   collVars, identVars>>

\* Whether handleDeleteAccount clears the session after a response.
ClearsSessionAlways(ok) == TRUE
ClearsSession(ok) == ok

\* fetch resolves: a non-success status throws (after response.text());
\* a success status issues multiRemove of the three keys.
handleDeleteAccount_response(ok) ==
    /\ da.pc = "fetch"
    /\ \E r \in net : r.op = "handleDeleteAccount" /\ net' = net \ {r}
    /\ IF ~ClearsSession(ok)
       THEN /\ handleDeleteAccount_catch("Account deletion failed", "fail", "failed")
            /\ UNCHANGED store
       ELSE /\ \E res \in StoreResults : \E gone \in (SUBSET Keys) \ {Keys} :
                 /\ store' = multiRemove(store, Keys, res, gone)
                 /\ da' = [da EXCEPT !.pc = "clear", !.rm = res,
                                     !.status = IF ok THEN "ok" ELSE "fail"]
            /\ UNCHANGED profileLoading
    /\ UNCHANGED <<screen, authVars, logoutPc, logoutRm, logoutGone, logoutAlert,
                   collVars, identVars>>

\* After await multiRemove: navigation.replace('Auth') and the success
\* alert, or the catch block if the removal rejected.
handleDeleteAccount_afterClear ==
    /\ da.pc = "clear"
    /\ IF da.rm = "throws"
       THEN /\ handleDeleteAccount_catch("Storage error", da.status, "failed")
            /\ UNCHANGED <<screen, authVars>>
       ELSE /\ screen' = "Auth"
            /\ MountAuth
            /\ da' = [da EXCEPT !.pc = "idle", !.outcome = "success",
                                !.alert = "Your account has been successfully deleted."]
            /\ profileLoading' = FALSE
            /\ UNCHANGED <<authPc, authResp, authSet, authRun, lastFail, prevFail>>
    /\ UNCHANGED <<store, net, logoutPc, logoutRm, logoutGone, logoutAlert, collVars, identVars>>

(***************************************************************************)
(* CollectionScreen: the endpoint fallback of fetchPlants and deletePlant  *)
(***************************************************************************)

\* The candidate paths of fetchPlants, in the order they are tried;
\* deletePlant tries the same four with "/<plantId>" appended.
endpoints == <<"/api/plants", "/plants", "/api/userplants", "/userplants">>

\* How a fetch can end: it throws, or resolves with a status that is not
\* in the success range, or with one that is.
Outcomes == {"throws", "fail", "ok"}

\* tempResponse.ok: the loop breaks on it.
BreaksOnAny(out) == out # "throws"
Breaks(out) == out = "ok"

\* The loop goes on to candidate i + 1 after candidate i, while there is one.
HasNextNever(i) == FALSE
HasNext(i) == i < Len(endpoints)

\* if (!response) throw: whether the loop left a response (validEndpoint
\* is 0 while response is null).
FoundAlways(validEndpoint) == TRUE
Found(validEndpoint) == validEndpoint # 0

\* The calls of fetchPlants that can be in flight together.
FetchIds == {"f1"}
\* The delete flows (dialog plus deletePlant) that can be in flight together.
DeleteIds == {"d1"}

PlantIds == {"p1", "p2", "p3"}
\* The lists of plants the backend answers with.
PlantLists == {<<>>, <<"p1">>, <<"p1", "p2", "p3">>}
\* A success response's body: empty text, a JSON array, JSON that is not an
\* array, or text that does not parse.
ListBodies == {[kind |-> "empty", list |-> <<>>],
               [kind |-> "object", list |-> <<>>],
               [kind |-> "garbage", list |-> <<>>]}
              \cup [kind : {"array"}, list : PlantLists]

MsgNoToken == "Authentication token not found. Please log in again."
MsgBadFormat == "Received invalid data format from server"
MsgFetchExhausted == "Failed to load plants: Failed to fetch plants from any endpoint"
MsgFetchParse == "Failed to load plants: JSON Parse error"
MsgDeleteSilent == None
MsgDeleteExhausted == "Failed to delete plant: Failed to delete plant using any endpoint"
MsgDeleted == "Plant has been removed from your collection"

\* A call's locals: the token read, the loop index, validEndpoint (0 while
\* response is null); and what the call observed: the outcome of each
\* candidate requested so far, whether it found no token, how it ended;
\* for fetchPlants the kind of body it read and the list it set, the calls
\* of fetchPlants that were running when it started (during) and whether
\* it is the call that ended last (latest); for a delete how its dialog
\* was answered (confirmed); for fetchPlants also the plants that
\* successful deletes took from the list while it was running (removed).
IdleProbe == [pc |-> "idle", token |-> None, idx |-> 0, valid |-> 0, log |-> <<>>,
              noToken |-> FALSE, outcome |-> None, plant |-> None, alert |-> None,
              body |-> None, data |-> <<>>, during |-> {}, latest |-> FALSE,
              confirmed |-> FALSE, removed |-> {}]

\* A call of fetchPlants ends with record c: it is now the latest.
Ended(f, c) ==
    [g \in DOMAIN fp |-> IF g = f THEN [c EXCEPT !.latest = TRUE, !.removed = {}]
                                 ELSE [fp[g] EXCEPT !.latest = FALSE]]

\* setPlants(data): the list is replaced.
setPlantsIfEmpty(prev, data) == IF prev = <<>> THEN data ELSE prev
setPlants(prev, data) == data

\* data = responseText ? JSON.parse(responseText) : [], Array.isArray(data).
IsArrayStrict(body) == body.kind = "array"
IsArray(body) == body.kind \in {"array", "empty"}

\* Which answer of the dialog calls deletePlant: onConfirm.
ProceedsAlways(confirmed) == TRUE
Proceeds(confirmed) == confirmed

Request(op, id, i, path, token) ==
    [op |-> op, id |-> id, idx |-> i, path |-> path, token |-> token]

\* prevPlants.filter(plant => plant._id !== plantId)
RECURSIVE filter(_, _)
filterKeepsAll(list, id) == list
filter(list, id) ==
    IF list = <<>> THEN <<>>
    ELSE IF Head(list) = id THEN filter(Tail(list), id)
         ELSE <<Head(list)>> \o filter(Tail(list), id)

\* setError(null) at the start of fetchPlants.
ErrorAtStartKept(prev) == prev
ErrorAtStart(prev) == None

\* fetchPlants is called: on mount and focus, by pull-to-refresh (the list
\* is shown; sets refreshing first), by Retry (the error is shown).
\* setError(null), then getItem('userToken').
fetchPlants_call(f, trigger) ==
    /\ screen = "Main" /\ NoDialog /\ fp[f].pc = "idle"
    /\ CASE trigger = "focus" -> UNCHANGED refreshing
         [] trigger = "refresh" ->
              /\ ~collLoading /\ error = None /\ Len(plants) > 0
              /\ refreshing' = TRUE
         [] trigger = "retry" ->
              /\ ~collLoading /\ error # None
              /\ UNCHANGED refreshing
    /\ error' = ErrorAtStart(error)
    /\ fp' = [fp EXCEPT ![f] = [IdleProbe EXCEPT !.pc = "getToken",
                  !.token = store["userToken"],
                  !.noToken = ~Truthy(store["userToken"]),
                  !.during = {g \in DOMAIN fp : fp[g].pc # "idle"}]]
    /\ UNCHANGED <<sessVars, authVars, profVars, plants, collLoading, dp, identVars>>

\* finally of fetchPlants.
fetchPlants_finally ==
    /\ collLoading' = FALSE
    /\ refreshing' = FALSE

\* After await getItem: without a token the error is set and the call
\* returns; with one the first candidate is requested.
fetchPlants_afterGetToken(f) ==
    /\ fp[f].pc = "getToken"
    /\ IF ~HasToken(fp[f].token)
       THEN /\ error' = MsgNoToken
            /\ fetchPlants_finally
            /\ fp' = Ended(f, [fp[f] EXCEPT !.pc = "idle", !.outcome = "noauth"])
            /\ UNCHANGED net
       ELSE /\ net' = net \cup {Request("fetchPlants", f, 1, endpoints[1], fp[f].token)}
            /\ fp' = [fp EXCEPT ![f].pc = "probe", ![f].idx = 1]
            /\ UNCHANGED <<error, collLoading, refreshing>>
    /\ UNCHANGED <<store, screen, authVars, profVars, plants, dp, identVars>>

\* The awaited fetch of a candidate ends with out.  Not ok: the next
\* candidate is requested.  Ok (break) or no candidate left: without a
\* response the call throws into its catch; with one, response.text() is
\* parsed and the list is set.
fetchPlants_probe(f, out, body) ==
    LET i == fp[f].idx
        more == ~Breaks(out) /\ HasNext(i)
        validEndpoint == IF Breaks(out) THEN i ELSE 0
    IN
    /\ fp[f].pc = "probe"
    /\ \E r \in net : /\ r.op = "fetchPlants" /\ r.id = f
                      /\ IF more
                         THEN net' = (net \ {r}) \cup
                                {Request("fetchPlants", f, i + 1, endpoints[i + 1],
                                         fp[f].token)}
                         ELSE net' = net \ {r}
    /\ IF more
       THEN /\ fp' = [fp EXCEPT ![f].idx = i + 1, ![f].log = Append(fp[f].log, out)]
            /\ UNCHANGED <<plants, error, collLoading, refreshing>>
       ELSE IF ~Found(validEndpoint)
       THEN /\ fp' = Ended(f, [fp[f] EXCEPT !.pc = "idle", !.outcome = "failed",
                                            !.log = Append(fp[f].log, out)])
            /\ error' = MsgFetchExhausted
            /\ fetchPlants_finally
            /\ UNCHANGED plants
       ELSE /\ fp' = Ended(f, [fp[f] EXCEPT !.pc = "idle", !.valid = validEndpoint,
                         !.log = Append(fp[f].log, out),
                         !.body = body.kind,
                         !.data = IF body.kind # "garbage" /\ IsArray(body)
                                  THEN body.list ELSE <<>>,
                         !.outcome = CASE body.kind = "garbage" -> "failed"
                                       [] IsArray(body) -> "ok"
                                       [] OTHER -> "format"])
            /\ CASE body.kind = "garbage" ->
                      error' = MsgFetchParse /\ UNCHANGED plants
                 [] IsArray(body) ->
                      plants' = setPlants(plants, body.list) /\ UNCHANGED error
                 [] OTHER ->
                      plants' = setPlants(plants, <<>>) /\ error' = MsgBadFormat
            /\ fetchPlants_finally
    /\ UNCHANGED <<store, screen, authVars, profVars, dp, identVars>>

\* The DELETE press on a card of the rendered list: the confirmation
\* dialog is shown.
handleDeletePlant(d, plant) ==
    /\ screen = "Main" /\ NoDialog /\ ~collLoading /\ error = None
    /\ \E i \in 1..Len(plants) : plants[i] = plant
    /\ dp[d].pc = "idle"
    /\ dp' = [dp EXCEPT ![d] = [IdleProbe EXCEPT !.pc = "confirm", !.plant = plant]]
    /\ UNCHANGED <<sessVars, authVars, profVars, plants, collLoading, refreshing,
                   error, fp, identVars>>

\* The dialog is answered.  Delete: deletePlant(plant._id) is called and
\* awaits getItem('userToken').
showDeleteConfirmation(d, confirmed) ==
    /\ dp[d].pc = "confirm"
    /\ IF Proceeds(confirmed)
       THEN dp' = [dp EXCEPT ![d].pc = "getToken", ![d].token = store["userToken"],
                      ![d].noToken = ~Truthy(store["userToken"]),
                      ![d].confirmed = confirmed]
       ELSE dp' = [dp EXCEPT ![d].pc = "idle", ![d].outcome = "cancelled",
                      ![d].confirmed = confirmed]
    /\ UNCHANGED <<sessVars, authVars, profVars, plants, collLoading, refreshing,
                   error, fp, identVars>>

\* After await getItem in deletePlant.
deletePlant_afterGetToken(d) ==
    /\ dp[d].pc = "getToken"
    /\ IF ~HasToken(dp[d].token)
       THEN /\ dp' = [dp EXCEPT ![d].pc = "idle", ![d].outcome = "noauth",
                         ![d].alert = MsgNoToken]
            /\ UNCHANGED net
       ELSE /\ net' = net \cup {Request("deletePlant", d, 1, endpoints[1], dp[d].token)}
            /\ dp' = [dp EXCEPT ![d].pc = "probe", ![d].idx = 1]
    /\ UNCHANGED <<store, screen, authVars, profVars, plants, collLoading, refreshing,
                   error, fp, identVars>>

\* The awaited DELETE of a candidate ends with out (its text is read for
\* the log only).  Not ok: the next candidate is requested.  Ok (break) or
\* no candidate left: without a response the catch's error alert; with one
\* the plant is filtered out of the list and the success alert shown.
deletePlant_probe(d, out) ==
    LET i == dp[d].idx
        more == ~Breaks(out) /\ HasNext(i)
        validEndpoint == IF Breaks(out) THEN i ELSE 0
    IN
    /\ dp[d].pc = "probe"
    /\ \E r \in net : /\ r.op = "deletePlant" /\ r.id = d
                      /\ IF more
                         THEN net' = (net \ {r}) \cup
                                {Request("deletePlant", d, i + 1, endpoints[i + 1],
                                         dp[d].token)}
                         ELSE net' = net \ {r}
    /\ IF more
       THEN /\ dp' = [dp EXCEPT ![d].idx = i + 1, ![d].log = Append(dp[d].log, out)]
            /\ UNCHANGED <<plants, fp>>
       ELSE IF ~Found(validEndpoint)
       THEN /\ dp' = [dp EXCEPT ![d].pc = "idle", ![d].outcome = "failed",
                         ![d].log = Append(dp[d].log, out),
                         ![d].alert = MsgDeleteExhausted]
            /\ UNCHANGED <<plants, fp>>
       ELSE /\ dp' = [dp EXCEPT ![d].pc = "idle", ![d].valid = validEndpoint,
                         ![d].log = Append(dp[d].log, out),
                         ![d].outcome = "ok", ![d].alert = MsgDeleted]
            /\ plants' = filter(plants, dp[d].plant)
            /\ fp' = [f \in DOMAIN fp |->
                        IF fp[f].pc = "idle" THEN fp[f]
                        ELSE [fp[f] EXCEPT !.removed = @ \cup {dp[d].plant}]]
    /\ UNCHANGED <<store, screen, authVars, profVars, collLoading, refreshing,
                   error, identVars>>

(***************************************************************************)
(* IdentifyScreen                                                          *)
(***************************************************************************)

\* Local image URIs the picker or the camera can give.
Images == {"file:///a.jpg", "file:///b.jpg"}

\* The identification results the backend answers with (confidence in
\* percent); image_url is the reference the backend echoes, if any.
Predictions == <<[plant_type |-> "Monstera", confidence |-> 92],
                 [plant_type |-> "Pothos", confidence |-> 5]>>
ServerResults ==
    [plant_type : {"Monstera", ""}, confidence : {92, 0},
     all_predictions : {Predictions, <<>>},
     image_url : {None, "/uploads/x.jpg"}]
IdentBodies == {[kind |-> "garbage", result |-> NoResult]}
               \cup [kind : {"json"}, result : ServerResults]

MsgNoAuthInfo == "Authentication information not found. Please log in."
MsgIdentifyFailed == "Plant identification failed"
MsgAddFailed == "Failed to add plant to collection"
MsgAdded == "Plant added to your collection!"
MsgNetwork == "Network request failed"
MsgJson == "JSON Parse error"

\* The locals of an identifyPlant or addToCollection call (image and
\* result are the state its closure captured), and what the call observed:
\* whether it found no token, the requests it issued, how its request
\* ended (status), the body it parsed, how the call ended (outcome), how
\* the conversion of its image ended (converted).
IdleCall == [pc |-> "idle", token |-> None, userId |-> None, image |-> None,
             result |-> NoResult, imageData |-> "", body |-> NoResult,
             noToken |-> FALSE, requests |-> 0, status |-> None,
             outcome |-> None, alert |-> None, converted |-> None]

\* disabled={loading} of the Identify, Cancel, Save and Discard controls.
DisabledNever(loading) == FALSE
Disabled(loading) == loading

\* `image` as a condition: the render of the Identify and Cancel buttons
\* and the first check of identifyPlant.
HasImageAlways(img) == TRUE
HasImage(img) == img # None

\* `identificationResult` as a condition: renderResultCard and the first
\* check of addToCollection.
HasResultAlways(result) == TRUE
HasResult(result) == result # NoResult

\* The result card, with Save and Discard, is rendered.
ResultCardShown == showResultCard /\ HasResult(identificationResult)

\* takePhoto / pickImage, offered while no image is selected and no result
\* is shown, ending with an image that was not cancelled.
selectImage(uri) ==
    /\ screen = "Main" /\ NoDialog /\ ~HasImage(image) /\ ~showResultCard
    /\ image' = uri
    /\ identificationResult' = NoResult
    /\ showResultCard' = FALSE
    /\ UNCHANGED <<sessVars, authVars, profVars, collVars, workOn, pd, identLoading, ip, ac>>

\* Where the Identify and Cancel buttons are rendered: with an image, in
\* the branch without the result card.
ButtonsShownWithCard == HasImage(image)
ButtonsShown == HasImage(image) /\ ~showResultCard

\* The Cancel button beside Identify: setImage(null).
clearImage ==
    /\ screen = "Main" /\ NoDialog /\ ButtonsShown
    /\ ~Disabled(identLoading)
    /\ image' = None
    /\ UNCHANGED <<sessVars, authVars, profVars, collVars, workOn, pd, identLoading,
                   identificationResult, showResultCard, ip, ac>>

\* The check `!token || !userId` of identifyPlant and addToCollection.
HasAuthInfoAlways(token, userId) == TRUE
HasAuthInfo(token, userId) == Truthy(token) /\ Truthy(userId)

\* catch + finally of identifyPlant.
identifyPlant_catch(message, status, outcome) ==
    /\ ip' = [ip EXCEPT !.pc = "idle", !.alert = message, !.status = status,
                        !.outcome = outcome]
    /\ identLoading' = FALSE

\* The Identify press (shown with an image and no result card, disabled
\* while loading; the handler's own check of image is the same condition):
\* setLoading(true), getItem('userToken').
identifyPlant_call ==
    /\ screen = "Main" /\ NoDialog /\ HasImage(image) /\ ~showResultCard
    /\ ~Disabled(identLoading)
    /\ identLoading' = TRUE
    /\ ip' = [IdleCall EXCEPT !.pc = "getToken", !.image = image,
                 !.token = store["userToken"],
                 !.noToken = ~Truthy(store["userToken"])]
    /\ UNCHANGED <<sessVars, authVars, profVars, collVars, workOn, pd, image,
                   identificationResult, showResultCard, ac>>

\* After await getItem('userToken'): getItem('userId').
identifyPlant_afterGetToken ==
    /\ ip.pc = "getToken"
    /\ ip' = [ip EXCEPT !.pc = "getUserId", !.userId = store["userId"]]
    /\ UNCHANGED <<sessVars, authVars, profVars, collVars, workOn, pd, image, identLoading,
                   identificationResult, showResultCard, ac>>

\* After await getItem('userId'): the check, then the POST to /api/identify/.
identifyPlant_afterGetUserId ==
    /\ ip.pc = "getUserId"
    /\ IF ~HasAuthInfo(ip.token, ip.userId)
       THEN /\ identifyPlant_catch(MsgNoAuthInfo, ip.status, "noauth")
            /\ UNCHANGED net
       ELSE /\ net' = net \cup {[op |-> "identifyPlant", path |-> "/api/identify/",
                                 token |-> ip.token]}
            /\ ip' = [ip EXCEPT !.pc = "fetch", !.requests = 1]
            /\ UNCHANGED identLoading
    /\ UNCHANGED <<store, screen, authVars, profVars, collVars, workOn, pd, image,
                   identificationResult, showResultCard, ac>>

\* fetch rejects.
identifyPlant_fetchThrows ==
    /\ ip.pc = "fetch"
    /\ \E r \in net : r.op = "identifyPlant" /\ net' = net \ {r}
    /\ identifyPlant_catch(MsgNetwork, "throws", "failed")
    /\ UNCHANGED <<store, screen, authVars, profVars, collVars, workOn, pd, image,
                   identificationResult, showResultCard, ac>>

\* `response.ok` as the condition of identifyPlant and addToCollection.
ResponseOkAlways(ok) == TRUE
ResponseOk(ok) == ok

\* result.image_url = image: the local URI replaces what the backend sent.
withLocalImageKeepsServer(result, uri) == result
withLocalImage(result, uri) == [result EXCEPT !.image_url = uri]

\* fetch resolves.  Not ok: throws with the response text.  Ok:
\* response.json() (which throws on text that is not JSON), the local
\* image is attached, the result is stored and its card shown.
identifyPlant_response(ok, body) ==
    /\ ip.pc = "fetch"
    /\ \E r \in net : r.op = "identifyPlant" /\ net' = net \ {r}
    /\ IF ~ResponseOk(ok)
       THEN /\ identifyPlant_catch(MsgIdentifyFailed, "fail", "failed")
            /\ UNCHANGED <<identificationResult, showResultCard>>
       ELSE IF body.kind # "json"
       THEN /\ identifyPlant_catch(MsgJson, "ok", "failed")
            /\ UNCHANGED <<identificationResult, showResultCard>>
       ELSE /\ identificationResult' = withLocalImage(body.result, ip.image)
            /\ showResultCard' = TRUE
            /\ ip' = [ip EXCEPT !.pc = "idle", !.outcome = "ok",
                                !.status = IF ok THEN "ok" ELSE "fail",
                                !.body = body.result]
            /\ identLoading' = FALSE
    /\ UNCHANGED <<store, screen, authVars, profVars, collVars, workOn, pd, image, ac>>

\* The Discard button of the result card.
cancelIdentification ==
    /\ screen = "Main" /\ NoDialog /\ ResultCardShown /\ ~Disabled(identLoading)
    /\ identificationResult' = NoResult
    /\ showResultCard' = FALSE
    /\ UNCHANGED <<sessVars, authVars, profVars, collVars, workOn, pd, image, identLoading, ip, ac>>

\* catch + finally of addToCollection.
addToCollection_catch(message, status, outcome) ==
    /\ ac' = [ac EXCEPT !.pc = "idle", !.alert = message, !.status = status,
                        !.outcome = outcome]
    /\ identLoading' = FALSE

\* The Save press on the result card (disabled while loading; the
\* handler's own check of identificationResult is the card's condition):
\* setLoading(true), getItem('userToken').
addToCollection_call ==
    /\ screen = "Main" /\ NoDialog /\ ResultCardShown /\ ~Disabled(identLoading)
    /\ identLoading' = TRUE
    /\ ac' = [IdleCall EXCEPT !.pc = "getToken", !.image = image,
                 !.result = identificationResult,
                 !.token = store["userToken"],
                 !.noToken = ~Truthy(store["userToken"])]
    /\ UNCHANGED <<sessVars, authVars, profVars, collVars, workOn, pd, image,
                   identificationResult, showResultCard, ip>>

\* After await getItem('userToken'): getItem('userId').
addToCollection_afterGetToken ==
    /\ ac.pc = "getToken"
    /\ ac' = [ac EXCEPT !.pc = "getUserId", !.userId = store["userId"]]
    /\ UNCHANGED <<sessVars, authVars, profVars, collVars, workOn, pd, image, identLoading,
                   identificationResult, showResultCard, ip>>

\* After await getItem('userId'): the check, then the conversion of the
\* local image to base64 is awaited (fetch of the file URI, FileReader).
addToCollection_afterGetUserId ==
    /\ ac.pc = "getUserId"
    /\ IF ~HasAuthInfo(ac.token, ac.userId)
       THEN addToCollection_catch(MsgNoAuthInfo, ac.status, "noauth")
       ELSE /\ ac' = [ac EXCEPT !.pc = "convert"]
            /\ UNCHANGED identLoading
    /\ UNCHANGED <<sessVars, authVars, profVars, collVars, workOn, pd, image,
                   identificationResult, showResultCard, ip>>

\* The base64 text of a local image, without the data-URI prefix.
base64(uri) == IF uri = "file:///a.jpg" THEN "YS5qcGc=" ELSE "Yi5qcGc="

\* text || fallback on a string.
OrElse(text, fallback) == IF text \in {None, Undefined, ""} THEN fallback ELSE text

\* The payload posted to /api/plants/ (date_added, the clock's reading,
\* left out; confidence || 0 and all_predictions || [] change no number
\* and no array).
plantDataTopOnly(result, userId, imageData) ==
    [type |-> OrElse(result.plant_type, "Unknown"), user_id |-> userId,
     name |-> OrElse(result.plant_type, "Unidentified Plant"),
     confidence |-> result.confidence,
     all_predictions |-> IF result.all_predictions = <<>> THEN <<>>
                         ELSE <<Head(result.all_predictions)>>,
     image_data |-> imageData]
plantData(result, userId, imageData) ==
    [type |-> OrElse(result.plant_type, "Unknown"), user_id |-> userId,
     name |-> OrElse(result.plant_type, "Unidentified Plant"),
     confidence |-> result.confidence,
     all_predictions |-> result.all_predictions,
     image_data |-> imageData]

\* How the conversion of the image can end: the FileReader loads the blob
\* (data); fetch(image), blob() or readAsDataURL throws (throws); the
\* FileReader fails, so that onloadend runs with reader.result null
\* (readerError).
ConvertOutcomes == {"data", "throws", "readerError"}

\* The inner catch of the conversion: what it catches leaves imageData "".
CaughtNever(how) == FALSE
Caught(how) == how = "throws"

\* The conversion ends (none is made without an image).  With the data or
\* with its error caught and logged: the POST to /api/plants/.  On a
\* reader error result.split throws inside the onloadend callback, where
\* neither the promise nor the catch sees it: resolve is never called and
\* the await never returns.
addToCollection_converted(how) ==
    /\ ac.pc = "convert"
    /\ IF ac.image # None /\ how # "data" /\ ~Caught(how)
       THEN /\ ac' = [ac EXCEPT !.pc = "hung", !.converted = how]
            /\ UNCHANGED net
       ELSE LET data == IF ac.image # None /\ how = "data"
                        THEN base64(ac.image) ELSE ""
            IN /\ ac' = [ac EXCEPT !.pc = "fetch", !.imageData = data,
                                   !.requests = 1,
                                   !.converted = IF ac.image # None THEN how
                                                 ELSE None]
               /\ net' = net \cup {[op |-> "addToCollection",
                                    path |-> "/api/plants/", token |-> ac.token,
                                    body |-> plantData(ac.result, ac.userId, data)]}
    /\ UNCHANGED <<store, screen, authVars, profVars, collVars, workOn, pd, identButAc>>

\* fetch rejects.
addToCollection_fetchThrows ==
    /\ ac.pc = "fetch"
    /\ \E r \in net : r.op = "addToCollection" /\ net' = net \ {r}
    /\ addToCollection_catch(MsgNetwork, "throws", "failed")
    /\ UNCHANGED <<store, screen, authVars, profVars, collVars, workOn, pd, image,
                   identificationResult, showResultCard, ip>>

\* "Reset the screen" after a save: setImage(null).
imageAfterSaveKept(img) == img
imageAfterSave(img) == None

\* fetch resolves; the text is read and parsed for the log.  Not ok:
\* throws.  Ok: the success alert and the screen is reset.
addToCollection_response(ok) ==
    /\ ac.pc = "fetch"
    /\ \E r \in net : r.op = "addToCollection" /\ net' = net \ {r}
    /\ IF ~ResponseOk(ok)
       THEN /\ addToCollection_catch(MsgAddFailed, "fail", "failed")
            /\ UNCHANGED <<image, identificationResult, showResultCard>>
       ELSE /\ ac' = [ac EXCEPT !.pc = "idle", !.alert = MsgAdded,
                                !.status = IF ok THEN "ok" ELSE "fail",
                                !.outcome = "ok"]
            /\ image' = imageAfterSave(image)
            /\ identificationResult' = NoResult
            /\ showResultCard' = FALSE
            /\ identLoading' = FALSE
    /\ UNCHANGED <<store, screen, authVars, profVars, collVars, workOn, pd, ip>>

(***************************************************************************)
(* PlantDetailScreen.handleDelete                                          *)
(***************************************************************************)

\* The screen (shown: it is on top of the stack, with the plant of its
\* route params), isDeleting, the locals of a handleDelete call and what
\* the call observed: how its dialog was answered, the status of its
\* DELETE, the alert it showed, and who left the screen (leftBy).
NoDetail == [shown |-> FALSE, plant |-> None, isDeleting |-> FALSE, pc |-> "idle",
             token |-> None, confirmed |-> FALSE, status |-> None, alert |-> None,
             leftBy |-> None]

MsgDetailDeleteFailed == "Failed to delete plant"

\* catch + finally of handleDelete.
handleDelete_catch(message, status) ==
    pd' = [pd EXCEPT !.pc = "idle", !.alert = message, !.status = status,
                     !.isDeleting = FALSE]

\* The "Remove from Collection" press (disabled while isDeleting): the
\* confirmation is shown.
handleDelete_call ==
    /\ screen = "Main" /\ pd.shown /\ pd.pc = "idle" /\ ~pd.isDeleting
    /\ pd' = [pd EXCEPT !.pc = "confirm", !.token = None, !.confirmed = FALSE,
                        !.status = None, !.alert = None]
    /\ UNCHANGED <<sessVars, authVars, profVars, collVars, identButAc, ac, workOn>>

\* The confirmation is answered.  Cancel: return (through finally).
\* Delete: setIsDeleting(true), getItem('userToken').
handleDelete_confirm(isConfirmed) ==
    /\ pd.pc = "confirm"
    /\ IF ~isConfirmed
       THEN pd' = [pd EXCEPT !.pc = "idle", !.isDeleting = FALSE]
       ELSE pd' = [pd EXCEPT !.pc = "getToken", !.isDeleting = TRUE,
                             !.confirmed = TRUE, !.token = store["userToken"]]
    /\ UNCHANGED <<sessVars, authVars, profVars, collVars, identButAc, ac, workOn>>

\* After await getItem: without a token it throws; with one the DELETE to
\* /api/plants/{id} is issued.
handleDelete_afterGetToken ==
    /\ pd.pc = "getToken"
    /\ IF ~HasToken(pd.token)
       THEN /\ handleDelete_catch(MsgNoToken, None)
            /\ UNCHANGED net
       ELSE /\ net' = net \cup {[op |-> "handleDelete", path |-> "/api/plants/",
                                 plant |-> pd.plant, token |-> pd.token]}
            /\ pd' = [pd EXCEPT !.pc = "fetch"]
    /\ UNCHANGED <<store, screen, authVars, profVars, collVars, identButAc, ac, workOn>>

\* fetch rejects.
handleDelete_fetchThrows ==
    /\ pd.pc = "fetch"
    /\ \E r \in net : r.op = "handleDelete" /\ net' = net \ {r}
    /\ handleDelete_catch(MsgNetwork, "throws")
    /\ UNCHANGED <<store, screen, authVars, profVars, collVars, identButAc, ac, workOn>>

\* What in handleDelete lets navigation.goBack() run: it is called as soon
\* as fetch has resolved, before response.ok is looked at.
GoesBack(ok) == TRUE

\* fetch resolves: navigation.goBack(); then, not ok, the text is read and
\* the error thrown and alerted.
handleDelete_response(ok) ==
    /\ pd.pc = "fetch"
    /\ \E r \in net : r.op = "handleDelete" /\ net' = net \ {r}
    /\ LET left == pd.shown /\ GoesBack(ok)
           after == [pd EXCEPT !.shown = IF left THEN FALSE ELSE @,
                               !.leftBy = IF left THEN "handleDelete" ELSE @,
                               !.pc = "idle", !.isDeleting = FALSE,
                               !.status = IF ok THEN "ok" ELSE "fail"]
       IN  pd' = IF ResponseOk(ok) THEN after
                 ELSE [after EXCEPT !.alert = MsgDetailDeleteFailed]
    /\ UNCHANGED <<store, screen, authVars, profVars, collVars, identButAc, ac, workOn>>

\* The back button of the header: navigation.goBack().
pressBack ==
    /\ screen = "Main" /\ pd.shown /\ pd.pc # "confirm"
    /\ pd' = [pd EXCEPT !.shown = FALSE, !.leftBy = "user"]
    /\ UNCHANGED <<sessVars, authVars, profVars, collVars, identButAc, ac, workOn>>

(***************************************************************************)
(* Initial states and specifications                                       *)
(***************************************************************************)

\* The calls of fetchPlants and the delete flows a behaviour can have
\* running at once, none started.
InitCalls(fetches, deletes) ==
    /\ fp = [f \in fetches |-> IdleProbe]
    /\ dp = [d \in deletes |-> IdleProbe]

\* The Collection screen as constructed.
InitList ==
    plants = <<>> /\ collLoading = TRUE /\ refreshing = FALSE /\ error = None

\* Every other component as constructed (the useState defaults), no handler
\* running, nothing in flight.
InitScreens ==
    /\ net = {}
    /\ isLogin = TRUE /\ username = "" /\ password = "" /\ authLoading = FALSE
    /\ authPc = "idle" /\ authResp = NoResp /\ authSet = None /\ authAlert = None
    /\ authRun = NoAuthRun /\ lastFail = NoFail /\ prevFail = NoFail
    /\ profileLoading = FALSE
    /\ logoutPc = "idle" /\ logoutRm = None /\ logoutGone = {} /\ logoutAlert = None
    /\ da = IdleRun
    /\ image = None /\ identLoading = FALSE
    /\ identificationResult = NoResult /\ showResultCard = FALSE
    /\ ip = IdleCall /\ ac = IdleCall

\* PlantDetailScreen is not on the stack.
InitNoDetail == pd = NoDetail

\* The app starts on Auth (initialRouteName), the store empty or still
\* holding the session of an earlier run.
InitAuth ==
    /\ screen = "Auth"
    /\ store \in {NoSession} \cup {FullSession(s) : s \in Sessions}
    /\ workOn = "Profile"
    /\ InitScreens
    /\ InitList
    /\ InitCalls(FetchIds, DeleteIds)
    /\ InitNoDetail

\* Main as handleAuth enters it: the three keys just written.
MainScreens == {"Collection", "Identify", "Profile"}
EnterMain ==
    /\ screen = "Main"
    /\ store = FullSession("s1")
    /\ InitScreens
InitMain ==
    /\ EnterMain
    /\ InitList
    /\ workOn \in MainScreens
    /\ InitCalls(FetchIds, DeleteIds)
    /\ InitNoDetail

InitProfile == InitMain /\ workOn = "Profile"
InitCollection == InitMain /\ workOn = "Collection"
InitIdentify == InitMain /\ workOn = "Identify"

\* The Collection screen with room for two calls of fetchPlants at once
\* (focus, pull to refresh and Retry each start one), and with room for
\* two delete flows at once (every row has its own DELETE button).
RefetchIds == {"f1", "f2"}
InitRefetch ==
    /\ EnterMain
    /\ InitList
    /\ workOn = "Collection"
    /\ InitCalls(RefetchIds, DeleteIds)
    /\ InitNoDetail
\* The delete flows start from the list as the fetchPlants of the mount
\* loaded it from the first candidate.
RedeleteIds == {"d1", "d2"}
Loaded(list) ==
    [IdleProbe EXCEPT !.token = store["userToken"], !.idx = 1, !.valid = 1,
                      !.log = <<"ok">>,
                      !.body = "array", !.data = list, !.outcome = "ok",
                      !.latest = TRUE]
InitRedelete ==
    /\ EnterMain
    /\ workOn = "Collection"
    /\ plants = <<"p1", "p2", "p3">>
    /\ collLoading = FALSE /\ refreshing = FALSE /\ error = None
    /\ fp = [f \in FetchIds |-> Loaded(plants)]
    /\ dp = [d \in RedeleteIds |-> IdleProbe]
    /\ InitNoDetail

\* PlantDetailScreen as it is mounted over Main with a plant of the
\* collection; the session is whole, or its token has been removed (a
\* logout that failed after its first removeItem).
InitDetail ==
    /\ screen = "Main"
    /\ store \in {FullSession(s) : s \in Sessions}
                 \cup {[FullSession(s) EXCEPT !["userToken"] = None] : s \in Sessions}
    /\ InitScreens
    /\ InitList
    /\ InitCalls(FetchIds, DeleteIds)
    /\ workOn = "Collection"
    /\ \E plant \in PlantIds : pd = [NoDetail EXCEPT !.shown = TRUE, !.plant = plant]

AuthActions ==
    \/ \E u \in Usernames : setUsername(u)
    \/ \E p \in Passwords : setPassword(p)
    \/ setIsLogin
    \/ handleAuth_call
    \/ handleAuth_fetchThrows
    \/ handleAuth_response
    \/ handleAuth_afterSetToken
    \/ handleAuth_afterSetUserId
    \/ handleAuth_afterSetUsername

LogoutActions ==
    \/ handleLogout_call
    \/ handleLogout_resume

DeleteAccountActions ==
    \/ handleDeleteAccount_call
    \/ \E c \in BOOLEAN : handleDeleteAccount_confirm(c)
    \/ handleDeleteAccount_afterGetToken
    \/ handleDeleteAccount_fetchThrows
    \/ \E ok \in BOOLEAN : handleDeleteAccount_response(ok)
    \/ handleDeleteAccount_afterClear

CollectionActionsOn(bodies) ==
    \/ \E f \in DOMAIN fp : \E t \in {"focus", "refresh", "retry"} :
          fetchPlants_call(f, t)
    \/ \E f \in DOMAIN fp : fetchPlants_afterGetToken(f)
    \/ \E f \in DOMAIN fp : \E out \in Outcomes : \E b \in bodies :
          fetchPlants_probe(f, out, b)
    \/ \E d \in DOMAIN dp : \E p \in PlantIds : handleDeletePlant(d, p)
    \/ \E d \in DOMAIN dp : \E c \in BOOLEAN : showDeleteConfirmation(d, c)
    \/ \E d \in DOMAIN dp : deletePlant_afterGetToken(d)
    \/ \E d \in DOMAIN dp : \E out \in Outcomes : deletePlant_probe(d, out)
CollectionActions == CollectionActionsOn(ListBodies)

IdentifyActionsOn(bodies) ==
    \/ \E uri \in Images : selectImage(uri)
    \/ clearImage
    \/ identifyPlant_call
    \/ identifyPlant_afterGetToken
    \/ identifyPlant_afterGetUserId
    \/ identifyPlant_fetchThrows
    \/ \E ok \in BOOLEAN : \E b \in bodies : identifyPlant_response(ok, b)
    \/ cancelIdentification
    \/ addToCollection_call
    \/ addToCollection_afterGetToken
    \/ addToCollection_afterGetUserId
    \/ \E how \in ConvertOutcomes : addToCollection_converted(how)
    \/ addToCollection_fetchThrows
    \/ \E ok \in BOOLEAN : addToCollection_response(ok)
IdentifyActions == IdentifyActionsOn(IdentBodies)

\* Signing in and out: AuthScreen and the Log Out button.
NextAuth == AuthActions \/ LogoutActions
SpecAuth == InitAuth /\ [][NextAuth]_vars

\* ProfileScreen.
NextProfile == LogoutActions \/ DeleteAccountActions
SpecProfile == InitProfile /\ [][NextProfile]_vars

\* CollectionScreen.
NextCollection == CollectionActions
SpecCollection == InitCollection /\ [][NextCollection]_vars

\* Overlapping calls of fetchPlants.
NextRefetch ==
    \/ \E f \in DOMAIN fp : \E t \in {"focus", "refresh", "retry"} :
          fetchPlants_call(f, t)
    \/ \E f \in DOMAIN fp : fetchPlants_afterGetToken(f)
    \/ \E f \in DOMAIN fp : \E out \in Outcomes : \E b \in ListBodies :
          fetchPlants_probe(f, out, b)
SpecRefetch == InitRefetch /\ [][NextRefetch]_vars

\* Overlapping delete flows.
NextRedelete ==
    \/ \E d \in DOMAIN dp : \E p \in PlantIds : handleDeletePlant(d, p)
    \/ \E d \in DOMAIN dp : \E c \in BOOLEAN : showDeleteConfirmation(d, c)
    \/ \E d \in DOMAIN dp : deletePlant_afterGetToken(d)
    \/ \E d \in DOMAIN dp : \E out \in Outcomes : deletePlant_probe(d, out)
SpecRedelete == InitRedelete /\ [][NextRedelete]_vars

\* PlantDetailScreen.
NextDetail ==
    \/ handleDelete_call
    \/ \E c \in BOOLEAN : handleDelete_confirm(c)
    \/ handleDelete_afterGetToken
    \/ handleDelete_fetchThrows
    \/ \E ok \in BOOLEAN : handleDelete_response(ok)
    \/ pressBack
SpecDetail == InitDetail /\ [][NextDetail]_vars

\* IdentifyScreen, one instance.
NextIdentify == IdentifyActions
SpecIdentify == InitIdentify /\ [][NextIdentify]_vars

\* IdentifyScreen with its awaited operations settling: a store read
\* returns, a request is answered or rejects, the conversion of the image
\* ends in one of its ways.  What the user presses is left to the user.
IdentifyFairness ==
    /\ WF_vars(identifyPlant_afterGetToken)
    /\ WF_vars(identifyPlant_afterGetUserId)
    /\ WF_vars(identifyPlant_fetchThrows
                 \/ \E ok \in BOOLEAN : \E b \in IdentBodies :
                       identifyPlant_response(ok, b))
    /\ WF_vars(addToCollection_afterGetToken)
    /\ WF_vars(addToCollection_afterGetUserId)
    /\ WF_vars(\E how \in ConvertOutcomes : addToCollection_converted(how))
    /\ WF_vars(addToCollection_fetchThrows
                 \/ \E ok \in BOOLEAN : addToCollection_response(ok))
SpecIdentifyFair == SpecIdentify /\ IdentifyFairness

\* The authenticated operations with the session being cleared under
\* them: the user works on one screen of Main (workOn), and the session may
\* be signed out at any point.  The backend answers with one list and one
\* identification result: what varies here is the session.
SessionListBodies == {[kind |-> "array", list |-> <<"p1", "p2">>]}
SessionIdentBodies ==
    {[kind |-> "json",
      result |-> [plant_type |-> "Monstera", confidence |-> 92,
                  all_predictions |-> Predictions, image_url |-> None]]}
NextSession ==
    \/ LogoutActions
    \/ workOn = "Profile" /\ DeleteAccountActions
    \/ workOn = "Collection" /\ CollectionActionsOn(SessionListBodies)
    \/ workOn = "Identify" /\ IdentifyActionsOn(SessionIdentBodies)
SpecSession == InitMain /\ [][NextSession]_vars

(***************************************************************************)
(* Properties                                                              *)
(***************************************************************************)

\* The requests of call id of operation op that are in flight.
InFlight(op, id) == {r \in net : r.op = op /\ r.id = id}

\* The fallback discipline of one call c of operation op.
FallbackInOrder(op, id, c) ==
    \* one at a time and in the listed order: while the call probes,
    \* exactly one request is out, for candidate idx, and candidates
    \* 1 .. idx - 1 are the ones that have resolved or thrown
    /\ c.pc = "probe" =>
         /\ InFlight(op, id) = {Request(op, id, c.idx, endpoints[c.idx], c.token)}
         /\ c.idx \in 1..Len(endpoints)
         /\ Len(c.log) = c.idx - 1
    /\ c.pc # "probe" => InFlight(op, id) = {}
    /\ Len(c.log) <= Len(endpoints)
    \* a success status ends the probing: it is the last outcome, its
    \* response is the one used, and nothing is in flight afterwards
    /\ \A i \in 1..Len(c.log) :
         c.log[i] = "ok" => i = Len(c.log) /\ c.pc = "idle" /\ c.valid = i
    /\ c.valid # 0 => c.valid <= Len(c.log) /\ c.log[c.valid] = "ok"
    \* a throw or a non-success status moves on: a call that has ended
    \* without a success status has tried all four
    /\ (c.pc = "idle" /\ c.log # <<>> /\ c.log[Len(c.log)] # "ok")
         => Len(c.log) = Len(endpoints)

\* C1: fetchPlants and deletePlant request the four candidate paths
\* strictly in the listed order and one at a time, move on to the next
\* candidate after a throw or a non-success status, and stop at the first
\* success status, whose response is the one used; no later candidate is
\* requested.
C1_EndpointFallback ==
    /\ \A f \in FetchIds : FallbackInOrder("fetchPlants", f, fp[f])
    /\ \A d \in DeleteIds : FallbackInOrder("deletePlant", d, dp[d])

\* C1 witness: a list call whose first candidate threw, whose second
\* returned a non-success status and whose third succeeded and was used,
\* and a delete call that succeeded on its second candidate.
C1_Witness ==
    /\ \E f \in FetchIds :
         /\ fp[f].pc = "idle" /\ fp[f].log = <<"throws", "fail", "ok">>
         /\ fp[f].valid = 3
    /\ \E d \in DeleteIds :
         /\ dp[d].pc = "idle" /\ dp[d].log = <<"fail", "ok">> /\ dp[d].valid = 2

\* A call that has ended with every candidate thrown or non-success.
Exhausted(c) ==
    /\ c.pc = "idle"
    /\ Len(c.log) = Len(endpoints)
    /\ \A i \in 1..Len(c.log) : c.log[i] \in {"throws", "fail"}

\* C2: when all four candidates throw or return a non-success status, the
\* list call ends in its catch with error set to the 'Failed to load
\* plants' message and the list untouched, and the delete call ends in its
\* catch with the error alert and the plant still listed; neither ends in
\* success.
C2_ExhaustionHandled ==
    /\ [](\A f \in FetchIds :
            Exhausted(fp[f]) => fp[f].outcome = "failed" /\ fp[f].valid = 0)
    /\ [](\A d \in DeleteIds :
            Exhausted(dp[d]) => /\ dp[d].outcome = "failed" /\ dp[d].valid = 0
                                /\ dp[d].alert = MsgDeleteExhausted)
    /\ [][\A f \in FetchIds :
            (~Exhausted(fp[f]) /\ Exhausted(fp[f]')) =>
               /\ error' = MsgFetchExhausted
               /\ plants' = plants
               /\ ~collLoading' /\ ~refreshing']_vars
    /\ [][\A d \in DeleteIds :
            (~Exhausted(dp[d]) /\ Exhausted(dp[d]')) => plants' = plants]_vars

\* C2 witness: a list call and a delete call that have both run through
\* the four candidates without a success status.
C2_Witness ==
    /\ \E f \in FetchIds : Exhausted(fp[f]) /\ error = MsgFetchExhausted
    /\ \E d \in DeleteIds : Exhausted(dp[d]) /\ dp[d].alert = MsgDeleteExhausted

\* A call c that found no userToken when it read the store has issued no
\* request and, once it has ended, has ended in its not-authenticated
\* branch.
EndsNotAuthenticated(c, waiting) ==
    c.noToken =>
      /\ c.pc \in waiting \cup {"idle"}
      /\ c.outcome = (IF c.pc = "idle" THEN "noauth" ELSE None)

NoRequestBy(op) == \A r \in net : r.op # op

\* C3: an authenticated operation (list plants, delete plant, identify,
\* add to collection, delete account) that finds no userToken in the store
\* when it starts issues no HTTP request and ends in its not-authenticated
\* failure: the error state of the list, the alert of the others.
C3_NoTokenNoRequest ==
    /\ [](\A f \in FetchIds :
            /\ EndsNotAuthenticated(fp[f], {"getToken"})
            /\ fp[f].noToken => InFlight("fetchPlants", f) = {} /\ fp[f].log = <<>>)
    /\ [][\A f \in FetchIds :
            (fp[f].noToken /\ fp[f].pc # "idle" /\ fp[f]'.pc = "idle")
               => error' = MsgNoToken]_vars
    /\ [](\A d \in DeleteIds :
            /\ EndsNotAuthenticated(dp[d], {"getToken"})
            /\ dp[d].noToken =>
                 /\ InFlight("deletePlant", d) = {} /\ dp[d].log = <<>>
                 /\ dp[d].pc = "idle" => dp[d].alert = MsgNoToken)
    /\ [](/\ EndsNotAuthenticated(ip, {"getToken", "getUserId"})
          /\ ip.noToken =>
               /\ NoRequestBy("identifyPlant") /\ ip.requests = 0
               /\ ip.pc = "idle" => ip.alert = MsgNoAuthInfo)
    /\ [](/\ EndsNotAuthenticated(ac, {"getToken", "getUserId"})
          /\ ac.noToken =>
               /\ NoRequestBy("addToCollection") /\ ac.requests = 0
               /\ ac.pc = "idle" => ac.alert = MsgNoAuthInfo)
    /\ [](/\ EndsNotAuthenticated(da, {"getToken"})
          /\ da.noToken =>
               /\ NoRequestBy("handleDeleteAccount") /\ da.requests = 0
               /\ da.pc = "idle" => da.alert = "No authentication token found")

\* C3 witness: with the token gone, a list call has ended with the
\* not-authenticated error and a delete call with the not-authenticated
\* alert.
C3_Witness ==
    /\ \E f \in FetchIds :
         /\ fp[f].noToken /\ fp[f].pc = "idle" /\ fp[f].outcome = "noauth"
         /\ error = MsgNoToken
    /\ \E d \in DeleteIds :
         dp[d].noToken /\ dp[d].pc = "idle" /\ dp[d].outcome = "noauth"

\* The step in which an authenticated operation starts: it reads the
\* token (for the two deletions, when their confirmation is accepted).
StartsWithoutToken ==
    /\ \A f \in FetchIds :
         (fp[f].pc = "idle" /\ fp[f]'.pc = "getToken") => fp[f]'.noToken
    /\ \A d \in DeleteIds :
         (dp[d].pc = "confirm" /\ dp[d]'.pc = "getToken") => dp[d]'.noToken
    /\ (ip.pc = "idle" /\ ip'.pc = "getToken") => ip'.noToken
    /\ (ac.pc = "idle" /\ ac'.pc = "getToken") => ac'.noToken
    /\ (da.pc = "confirm" /\ da'.pc = "getToken") => da'.noToken

\* handleLogout has been invoked (SpecSession has no later login).
LogoutInvoked == logoutPc # "idle" \/ logoutAlert # None \/ logoutGone # {}

C5_AllOrNothing ==
    [][(isLogin /\ authPc # "idle" /\ authPc' = "idle") =>
          \/ /\ authRun'.outcome = "success"
             /\ authRun'.written = Keys
             /\ \A k \in Keys : store'[k] = authRun'.sid
             /\ screen' = "Main"
          \/ /\ authRun'.outcome = "failed"
             /\ authRun'.written = {}
             /\ store' = store]_vars

\* C6: while the username or the password is empty, handleAuth issues no
\* request, leaves the store alone, never sets loading and does not
\* navigate; what it does is show the validation alert.
C6_ValidationOnly ==
    /\ []((screen = "Auth" /\ (username = "" \/ password = "")) =>
            ~authLoading /\ authPc = "idle" /\ NoRequestBy("handleAuth"))
    /\ [][(screen = "Auth" /\ (username = "" \/ password = "")) =>
            /\ net' = net /\ store' = store /\ screen' = screen
            /\ ~authLoading' /\ authPc' = "idle"
            /\ (authAlert' # authAlert \/ authRun' # authRun) =>
                 /\ authAlert' = "Please enter both username and password"
                 /\ authRun'.outcome = "validation"]_vars

\* C6 witness: handleAuth was pressed with a username and no password over
\* a stored session, and stopped at the validation alert.
C6_Witness ==
    /\ screen = "Auth" /\ username = "u" /\ password = ""
    /\ authRun.outcome = "validation"
    /\ authAlert = "Please enter both username and password"
    /\ store = FullSession("s1") /\ net = {} /\ ~authLoading

\* C7: the message of a failed handleAuth is the one of its mode, whatever
\* made it fail; two failures in the same mode show the same message.
C7_MessageByModeOnly ==
    /\ lastFail.cause # None =>
         lastFail.msg = (IF lastFail.login THEN "Invalid username or password"
                         ELSE "Failed to create account")
    /\ (lastFail.cause # None /\ prevFail.cause # None
          /\ lastFail.login = prevFail.login) => lastFail.msg = prevFail.msg
    /\ (authRun.outcome = "failed" /\ authPc = "idle" /\ screen = "Auth"
          /\ authAlert # None) => authAlert = lastFail.msg

\* C7 witness: two failed logins in a row, one on a thrown network error
\* and one on a non-success status, with the same message.
C7_Witness ==
    /\ lastFail.login /\ prevFail.login
    /\ prevFail.cause = "thrown" /\ lastFail.cause = "status"
    /\ lastFail.msg = prevFail.msg /\ authAlert = "Invalid username or password"

\* C8: on a response with a non-success status, or with a body that is
\* not JSON (also on a success status), handleAuth writes nothing to the
\* store, does not enter Main and ends in the authentication failure.
C8_RejectsBadResponse ==
    /\ (authResp # NoResp /\ (~authResp.ok \/ authResp.body.kind = "text")) =>
         authRun.written = {} /\ screen = "Auth"
    /\ authRun.cause \in {"status", "body"} =>
         authRun.outcome = "failed" /\ authRun.written = {}

\* The step in which a handleLogout run ends.
LogoutEnds == logoutPc # "idle" /\ logoutPc' = "idle"

DeleteAccountEnds == da.pc # "idle" /\ da'.pc = "idle"

\* What a run that did not get a success status does: nothing to the
\* store, no navigation, an error message unless it was cancelled.
DeleteAccountRefused ==
    /\ [][(da' # da /\ da'.status # "ok") => store' = store]_vars
    /\ [][(DeleteAccountEnds /\ da'.status # "ok") =>
            /\ screen' = screen
            /\ da'.outcome \in {"cancelled", "noauth", "failed"}
            /\ da'.outcome = "cancelled" <=> da'.alert = None]_vars

IdentifySucceeds ==
    ip.pc = "fetch" /\ ip'.pc = "idle" /\ ip'.status = "ok" /\ ip'.outcome = "ok"

\* C11: after a successful identifyPlant the result the screen holds has
\* image_url equal to the local image that was selected when the call
\* started, whatever image_url the response had, and the plant_type and
\* confidence of the response; the held result keeps the selected image.
C11_LocalImageAttached ==
    /\ [][IdentifySucceeds =>
            /\ ip.image \in Images
            /\ identificationResult'.image_url = ip.image
            /\ identificationResult'.plant_type = ip'.body.plant_type
            /\ identificationResult'.confidence = ip'.body.confidence
            /\ showResultCard']_vars
    /\ [](identificationResult # NoResult =>
            identificationResult.image_url = image /\ image \in Images)

\* C11 witness: the backend answered with its own image reference and the
\* held result shows the local image the call was started with.
C11_Witness ==
    /\ ip.pc = "idle" /\ ip.outcome = "ok" /\ ip.body.image_url = "/uploads/x.jpg"
    /\ ip.image = "file:///b.jpg" /\ identificationResult.image_url = "file:///b.jpg"
    /\ identificationResult.plant_type = "Monstera" /\ showResultCard

\* The step in which Discard takes effect: the held result is dropped and
\* no save has ended.
DiscardStep ==
    identificationResult # NoResult /\ identificationResult' = NoResult /\ ac' = ac

\* C12: discarding a shown result leaves no result, the card hidden and no
\* image selected.
C12_DiscardToIdle ==
    [][DiscardStep =>
         identificationResult' = NoResult /\ ~showResultCard' /\ image' = None]_vars

\* The step in which an addToCollection call ends on a success status of
\* its POST.
SaveSucceeds == ac.pc = "fetch" /\ ac'.pc = "idle" /\ ac'.status = "ok"

\* C13: when the POST of addToCollection returns a success status the call
\* ends with image null, identificationResult null, the card hidden and
\* loading false.
C13_SaveToIdle ==
    [][SaveSucceeds =>
         /\ image' = None /\ identificationResult' = NoResult
         /\ ~showResultCard' /\ ~identLoading'
         /\ ac'.outcome = "ok" /\ ac'.alert = MsgAdded]_vars

\* C13 witness: a save of an identified image has ended on a success
\* status and the screen is back to its initial state.
C13_Witness ==
    /\ ac.pc = "idle" /\ ac.status = "ok" /\ ac.image \in Images
    /\ ac.result # NoResult
    /\ image = None /\ identificationResult = NoResult
    /\ ~showResultCard /\ ~identLoading

\* The workflow state ResultShown: a result is held, its card is shown and
\* no call is running.
ResultShown == identificationResult # NoResult /\ showResultCard /\ ~identLoading

\* The steps in which an identifyPlant / addToCollection call starts.
IdentifyStarts == ip' # ip /\ ip'.pc = "getToken"
SaveStarts == ac' # ac /\ ac'.pc = "getToken"

\* C14: identifyPlant starts, and its request is out, only with an image
\* selected; addToCollection starts and Discard takes effect only in
\* ResultShown, and the save request is out only while the result it
\* posts is held and shown.
C14_ActionsInState ==
    /\ [][IdentifyStarts => image # None /\ ip'.image = image]_vars
    /\ [](\A r \in net : r.op = "identifyPlant" => ip.image # None /\ image = ip.image)
    /\ [][SaveStarts => ResultShown /\ ac'.result = identificationResult]_vars
    /\ [](\A r \in net : r.op = "addToCollection" =>
            /\ ac.result # NoResult
            /\ r.body.confidence = ac.result.confidence
            /\ r.body.all_predictions = ac.result.all_predictions
            /\ showResultCard /\ identificationResult = ac.result)
    /\ [][DiscardStep => ResultShown]_vars

\* C14 witness: the save request of a shown result is out.
C14_Witness ==
    /\ ac.pc = "fetch" /\ showResultCard /\ identificationResult = ac.result
    /\ \E r \in net : r.op = "addToCollection" /\ r.body.type = "Monstera"

\* C15: at most one identifyPlant or addToCollection call runs at a time;
\* a running call keeps loading set, and while loading is set no call
\* starts and Identify, Cancel, Save and Discard have no effect.
C15_OneCallAtATime ==
    /\ [](/\ (ip.pc # "idle" \/ ac.pc # "idle") => identLoading
          /\ ~(ip.pc # "idle" /\ ac.pc # "idle")
          /\ Cardinality({r \in net : r.op \in {"identifyPlant", "addToCollection"}})
               <= 1)
    /\ [][identLoading =>
            /\ ~IdentifyStarts /\ ~SaveStarts
            /\ (image' # image \/ identificationResult' # identificationResult
                  \/ showResultCard' # showResultCard) => (ip' # ip \/ ac' # ac)]_vars

\* C15 witness: an identification request is out, loading is set and no
\* save is running.
C15_Witness ==
    /\ identLoading /\ ip.pc = "fetch" /\ ac.pc = "idle"
    /\ \E r \in net : r.op = "identifyPlant"

\* A DELETE request of flow d for the plant is awaited.
DeleteInFlight(d, plant) ==
    /\ dp[d].plant = plant
    /\ \E r \in net : r.op = "deletePlant" /\ r.id = d

\* The DELETE control of a plant is pressed: a flow leaves idle for the
\* confirmation dialog of that plant.
DeletePressed(d, plant) ==
    dp[d].pc = "idle" /\ dp'[d].pc = "confirm" /\ dp'[d].plant = plant

\* C16: while a DELETE request for a plant is in flight the plant's DELETE
\* control is disabled: it is not pressed again, and so no second request
\* for the same plant is ever awaited next to the first.
C16_DeleteDisabled ==
    /\ [][\A d \in DOMAIN dp : \A plant \in PlantIds :
            DeletePressed(d, plant)
                => ~\E e \in DOMAIN dp : DeleteInFlight(e, plant)]_vars
    /\ [](\A d, e \in DOMAIN dp : \A plant \in PlantIds :
            DeleteInFlight(d, plant) /\ DeleteInFlight(e, plant) => d = e)

\* Call f of fetchPlants has ended with a success response holding a list.
FetchSucceeded(f) == fp[f].pc = "idle" /\ fp[f].outcome = "ok"

\* Calls f and g of fetchPlants overlapped: one was running when the
\* other started.
Overlapped(f, g) == f # g /\ (f \in fp[g].during \/ g \in fp[f].during)

\* C17: of two overlapping calls of fetchPlants that both succeeded, the
\* one whose response completed last decides the list, whichever of them
\* started first; and the step that completes a successful call sets the
\* list to that response's data.
C17_LastResponseWins ==
    /\ [](\A f, g \in DOMAIN fp :
            /\ Overlapped(f, g)
            /\ FetchSucceeded(f) /\ FetchSucceeded(g)
            /\ fp[f].latest
            => plants = fp[f].data)
    /\ [][\A f \in DOMAIN fp :
            fp[f].pc # "idle" /\ fp'[f].pc = "idle" /\ fp'[f].outcome = "ok"
                => plants' = fp'[f].data]_vars

\* The call that started first completed last, with another list than the
\* call that started during it, and its list is the one shown.
C17_Witness ==
    \E f, g \in DOMAIN fp :
        /\ f \in fp[g].during /\ g \notin fp[f].during
        /\ FetchSucceeded(f) /\ FetchSucceeded(g)
        /\ fp[f].latest
        /\ fp[f].data # fp[g].data /\ fp[g].data # <<>>
        /\ plants = fp[f].data

\* Flow d's deletePlant ends with a success response in this step.
DeleteSucceeds(d) ==
    dp[d].pc = "probe" /\ dp'[d].pc = "idle" /\ dp'[d].outcome = "ok"

\* C18: when deletePlant gets a success response, from whichever candidate
\* path, the list afterwards has no entry with the deleted id and is the
\* list before without that id: every other entry kept, in its order.
C18_RemovedOthersKept ==
    [][\A d \in DOMAIN dp :
         DeleteSucceeds(d) =>
            LET Other(id) == id # dp[d].plant
            IN  /\ \A i \in 1..Len(plants') : plants'[i] # dp[d].plant
                /\ plants' = SelectSeq(plants, Other)]_vars

\* The middle plant was deleted on the second candidate path, the first
\* having failed; the two others are left in their order.
C18_Witness ==
    \E d \in DOMAIN dp :
        /\ dp[d].pc = "idle" /\ dp[d].outcome = "ok"
        /\ dp[d].plant = "p2" /\ dp[d].valid = 2
        /\ dp[d].log \in {<<"fail", "ok">>, <<"throws", "ok">>}
        /\ plants = <<"p1", "p3">>

\* The entries of a list.
Entries(list) == {list[i] : i \in 1..Len(list)}

\* C19: a DELETE request is sent only by a flow whose dialog the user
\* confirmed; and a plant leaves the list only in a step in which the
\* DELETE of some candidate path for that plant is answered with success.
C19_ConfirmedThenSucceeded ==
    /\ [](\A d \in DOMAIN dp :
            (dp[d].log # <<>> \/ \E r \in net : r.op = "deletePlant" /\ r.id = d)
                => dp[d].confirmed)
    /\ [][\A plant \in Entries(plants) \ Entries(plants') :
            \E d \in DOMAIN dp :
                /\ dp[d].plant = plant /\ dp[d].confirmed
                /\ \E r \in net \ net' : r.op = "deletePlant" /\ r.id = d
                /\ dp'[d].log = Append(dp[d].log, "ok")]_vars

\* One dialog was cancelled: nothing was requested and its plant is still
\* listed; another was confirmed and its plant left the list on success.
C19_Witness ==
    \E d, e \in DOMAIN dp :
        /\ dp[d].outcome = "cancelled" /\ ~dp[d].confirmed /\ dp[d].log = <<>>
        /\ dp[d].plant \in Entries(plants)
        /\ dp[e].outcome = "ok" /\ dp[e].confirmed /\ dp[e].pc = "idle"
        /\ dp[e].plant \notin Entries(plants)

\* Call f of fetchPlants ends in this step having read a success
\* response's body of the kind.
FetchReads(f, kind) ==
    fp[f].pc # "idle" /\ fp'[f].pc = "idle" /\ fp'[f].body = kind

\* C20: a success response whose body parses to something that is not an
\* array empties the list and sets the error 'Received invalid data format
\* from server'; an empty body counts as an empty array: the list is
\* emptied and no error is set.
C20_InvalidFormat ==
    [][\A f \in DOMAIN fp :
         /\ FetchReads(f, "object") =>
                /\ plants' = <<>>
                /\ error' = "Received invalid data format from server"
         /\ FetchReads(f, "empty") =>
                /\ plants' = <<>>
                /\ error' = error
                /\ fp'[f].outcome = "ok"]_vars

\* One call read an empty body and ended without an error; the call that
\* ended last read an object: the list is empty and the error is shown.
C20_Witness ==
    \E f, g \in DOMAIN fp :
        /\ fp[g].pc = "idle" /\ fp[g].body = "empty" /\ fp[g].outcome = "ok"
        /\ fp[f].pc = "idle" /\ fp[f].body = "object" /\ fp[f].latest
        /\ plants = <<>>
        /\ error = "Received invalid data format from server"

\* Call f of fetchPlants ends in failure in this step: no token, no
\* candidate answered with success, or the body was unusable.
FetchFails(f) ==
    /\ fp[f].pc # "idle" /\ fp'[f].pc = "idle"
    /\ fp'[f].outcome \in {"noauth", "failed", "format"}

\* A call of fetchPlants starts in this step.
FetchStarts(f) == fp[f].pc = "idle" /\ fp'[f].pc # "idle"

\* The error view with its Retry button is rendered.
RetryOffered == ~collLoading /\ error # None

\* C21: a list that ends in failure sets the error, and the error stays
\* (Retry offered) until a new list is started, which clears it; the step
\* that ends a list in failure starts no call and leaves no request of
\* the failed call behind; so while no list runs and the list completed
\* last has failed, Retry is offered.
C21_RetryOffered ==
    /\ [][\A f \in DOMAIN fp :
            FetchFails(f) =>
                /\ error' # None /\ ~collLoading'
                /\ \A g \in DOMAIN fp : ~FetchStarts(g)
                /\ ~\E r \in net' : r.op = "fetchPlants" /\ r.id = f]_vars
    /\ [][error # None /\ error' = None
            => \E f \in DOMAIN fp : FetchStarts(f)]_vars
    /\ [][\A f \in DOMAIN fp : FetchStarts(f) => error' = None]_vars
    /\ [](\A f \in DOMAIN fp :
            /\ fp[f].latest
            /\ fp[f].outcome \in {"noauth", "failed", "format"}
            /\ \A g \in DOMAIN fp : fp[g].pc = "idle"
            => RetryOffered)

\* Every candidate of the list completed last failed, nothing is running,
\* the error is shown with Retry.
C21_Witness ==
    \E f \in DOMAIN fp :
        /\ fp[f].latest /\ fp[f].outcome = "failed"
        /\ Len(fp[f].log) = Len(endpoints)
        /\ \A g \in DOMAIN fp : fp[g].pc = "idle"
        /\ net = {}
        /\ error = "Failed to load plants: Failed to fetch plants from any endpoint"
        /\ RetryOffered

\* The conversion of the image inside addToCollection ends in failure in
\* this step.
ConversionFails ==
    /\ ac.pc = "convert" /\ ac'.pc # "convert"
    /\ ac'.converted \in {"throws", "readerError"}

\* C22: when fetching or encoding the local image fails, the POST to
\* /api/plants/ is issued all the same, with image_data "" and the other
\* fields those of the held result.
C22_ConversionTolerated ==
    [][ConversionFails =>
         \E r \in net' \ net :
            /\ r.op = "addToCollection" /\ r.path = "/api/plants/"
            /\ r.body.image_data = ""
            /\ r.body.user_id = ac.userId
            /\ r.body.confidence = ac.result.confidence
            /\ r.body.all_predictions = ac.result.all_predictions]_vars

\* The save requests that are out.
SaveRequests == {r \in net : r.op = "addToCollection"}

\* The payload has the confidence of the held result and its predictions,
\* entry by entry.
CarriesPredictions(body) ==
    /\ body.confidence = identificationResult.confidence
    /\ Len(body.all_predictions) = Len(identificationResult.all_predictions)
    /\ \A i \in 1..Len(body.all_predictions) :
          body.all_predictions[i] = identificationResult.all_predictions[i]

\* C23 as stated: the payload carries the confidence and the predictions
\* of the result, and its type and its name are the result's plant_type.
C23_AsStated ==
    \A r \in SaveRequests :
        /\ CarriesPredictions(r.body)
        /\ r.body.type = identificationResult.plant_type
        /\ r.body.name = identificationResult.plant_type

\* C23: the payload carries the confidence and the predictions of the
\* result, in their order; its type and its name are the result's
\* plant_type when that is not empty, and 'Unknown' and 'Unidentified
\* Plant' when it is.
C23_PayloadFromResult ==
    \A r \in SaveRequests :
        /\ CarriesPredictions(r.body)
        /\ identificationResult.plant_type # "" =>
              /\ r.body.type = identificationResult.plant_type
              /\ r.body.name = identificationResult.plant_type
        /\ identificationResult.plant_type = "" =>
              /\ r.body.type = "Unknown"
              /\ r.body.name = "Unidentified Plant"

\* The payload of a result with a confidence and two predictions is out.
C23_Witness ==
    \E r \in SaveRequests :
        /\ identificationResult.plant_type = "Monstera"
        /\ r.body.confidence = 92
        /\ Len(r.body.all_predictions) = 2
        /\ r.body.all_predictions[1].plant_type = "Monstera"
        /\ r.body.all_predictions[2].plant_type = "Pothos"

\* identifyPlant ends in failure in this step: no auth info, the request
\* rejected or answered with a status outside the success range, or a
\* body that is not JSON.
IdentifyFails ==
    /\ ip.pc # "idle" /\ ip'.pc = "idle"
    /\ ip'.outcome \in {"noauth", "failed"} \/ ip'.status \in {"fail", "throws"}

\* addToCollection ends in failure in this step.
SaveFails ==
    /\ ac.pc # "idle" /\ ac'.pc = "idle"
    /\ ac'.outcome \in {"noauth", "failed"} \/ ac'.status \in {"fail", "throws"}

\* Nothing of the workflow but loading changes.
WorkflowKept ==
    /\ image' = image
    /\ identificationResult' = identificationResult
    /\ showResultCard' = showResultCard
    /\ identLoading' = FALSE

\* C24: a failed identify leaves the image it was started with selected
\* and no result shown; a failed save leaves the result it was to post
\* held, its card shown and the image selected; loading is cleared, and
\* the failing step leaves no request of the call behind and starts none.
C24_FailureKeepsWorkflow ==
    /\ [][IdentifyFails =>
            /\ WorkflowKept
            /\ image' = ip.image /\ image' # None
            /\ ~showResultCard' /\ identificationResult' = NoResult
            /\ net' \subseteq net
            /\ ~\E r \in net' : r.op = "identifyPlant"]_vars
    /\ [][SaveFails =>
            /\ WorkflowKept
            /\ image' = ac.image
            /\ showResultCard' /\ identificationResult' = ac.result
            /\ identificationResult' # NoResult
            /\ net' \subseteq net
            /\ ~\E r \in net' : r.op = "addToCollection"]_vars

\* A save was answered with a failure status: the result is still shown
\* with its image, nothing is running, and Save can be pressed again.
C24_Witness ==
    /\ ip.pc = "idle" /\ ac.pc = "idle"
    /\ ac.status = "fail" /\ ac.outcome = "failed"
    /\ showResultCard /\ identificationResult = ac.result
    /\ image = ac.image /\ image # None
    /\ ~identLoading /\ net = {}

\* Flow d's deletePlant ends in failure in this step: it found no token,
\* or no candidate path was answered with success.
DeleteFails(d) ==
    /\ dp[d].pc \in {"getToken", "probe"} /\ dp'[d].pc = "idle"
    /\ dp'[d].noToken \/ \A i \in 1..Len(dp'[d].log) : dp'[d].log[i] # "ok"

\* C25: no step of a deletePlant call but the one that ends it with a
\* success response changes the list, and the step that ends it in failure
\* shows an error alert.
C25_FailedDeleteKeepsList ==
    [][\A d \in DOMAIN dp :
         /\ dp'[d] # dp[d] /\ ~DeleteSucceeds(d) => plants' = plants
         /\ DeleteFails(d) =>
              /\ plants' = plants
              /\ dp'[d].alert \in
                    {"Authentication token not found. Please log in again.",
                     "Failed to delete plant: Failed to delete plant using any endpoint"}]_vars

\* Every candidate path of a confirmed delete failed: the error alert is
\* shown and the plant is still listed.
C25_Witness ==
    \E d \in DOMAIN dp :
        /\ dp[d].pc = "idle" /\ dp[d].outcome = "failed" /\ dp[d].confirmed
        /\ Len(dp[d].log) = Len(endpoints)
        /\ dp[d].alert = "Failed to delete plant: Failed to delete plant using any endpoint"
        /\ dp[d].plant \in Entries(plants)
        /\ plants = <<"p1", "p2">>

\* C26: a handleAuth run, in either mode, that ended in failure wrote no
\* key of the store: what an earlier session left there is as it was.
C26_FailedAuthKeepsStore ==
    (authPc = "idle" /\ authRun.outcome = "failed") => authRun.written = {}

\* C27: a list response whose call was running when a delete succeeded
\* puts none of the plants removed meanwhile back into the list.
C27_NoResurrection ==
    [][\A f \in DOMAIN fp :
         fp[f].pc # "idle" /\ fp'[f].pc = "idle"
             => Entries(plants') \cap fp[f].removed = {}]_vars

\* C28: handleDelete leaves the detail screen only when its DELETE was
\* answered with a success status; answered with another status, the
\* screen stays and the error is alerted on it.
C28_LeavesOnlyOnSuccess ==
    /\ [](pd.leftBy = "handleDelete" => pd.status = "ok")
    /\ [][(pd.pc = "fetch" /\ pd'.pc = "idle" /\ pd'.status = "fail") =>
            /\ pd'.shown = pd.shown
            /\ pd'.alert = MsgDetailDeleteFailed]_vars

\* C29: an identify or a save that has set loading ends and clears it,
\* whichever way its awaited operations end, the conversion of the image
\* included.
C29_LoadingCleared == identLoading ~> ~identLoading

\* C30: the result card is flagged shown exactly when a result is held,
\* and a shown result has its image selected.
C30_CardResultImage ==
    /\ showResultCard <=> identificationResult # NoResult
    /\ showResultCard => image # None

\* A result is shown with its image after a save of it has failed.
C30_Witness ==
    /\ showResultCard /\ identificationResult # NoResult
    /\ image = "file:///b.jpg" /\ identificationResult.image_url = image
    /\ ac.outcome = "failed" /\ ~identLoading
====
